---- MODULE Spec2Model ----
(***************************************************************************)
(* The concurrency guard (mod lock), the debug-handle lifecycle manager    *)
(* (dbghelp_init / Cleanup) and the panic bomb (Bomb) of src/lib.rs, with  *)
(* the trace/resolve facade that composes them.                            *)
(***************************************************************************)
EXTENDS Integers, Sequences, FiniteSets, TLC

\* ---------------------------------------------------------------- bounds
NumThreads == 2
MaxDepth == 2
MaxFrames == 2
MaxLeases == 3

\* ------------------------------------------------------------- constants
\* const SYMOPT_DEFERRED_LOADS: DWORD = 0x00000004
SYMOPT_DEFERRED_LOADS == 4

Threads == 1..NumThreads
NoThread == 0

\* static mut LOCK: *mut Mutex<()> = 0 as *mut _; a non-null value k is the
\* address of the k-th Mutex the closure of call_once allocated.
NullPtr == 0

\* Values SymGetOptions() may report before this code first runs: no option
\* set, or deferred loads together with one unrelated option bit.
OptValues == {0, SYMOPT_DEFERRED_LOADS + 1}

Ops == {"trace", "resolve"}

VARIABLES
  panicStrategy, \* the build's panic strategy: "unwind" or "abort"
  aborted,       \* the process has aborted
  stack,         \* per thread: the facade calls in progress, outermost first
  panicking,     \* per thread: a panic is unwinding the thread
  LOCK_HELD,     \* thread_local LOCK_HELD
  LOCK,          \* static mut LOCK: NullPtr or the address of a Mutex
  INIT,          \* static INIT: Once: "new", "running" or "done"
  mutexOwner,    \* the thread holding (*LOCK)'s MutexGuard, or NoThread
  poisoned,      \* (*LOCK) is poisoned
  nullDeref,     \* some thread dereferenced LOCK while it was null
  dropped,       \* per thread: a LockGuard of the thread's own code has gone
                 \* out of scope (by scope exit or by unwinding)
  REF_COUNT,     \* *REF_COUNT
  symOpts,       \* the process's symbol options (SymGetOptions/SymSetOptions)
  symState,      \* the symbol handler: "none", "ours" or "external"
  spuriousCleanup, \* SymCleanup ran with no initialization of ours live
  priorOpts,     \* symOpts before the initialization that took REF_COUNT 0 -> 1
  lastInit,      \* the branch the last dbghelp_init() call took
  held,          \* the Cleanup leases the direct caller holds, in issue order
  ubomb,         \* the direct caller's Bomb: "none", "armed" or "disarmed"
  upanic,        \* a panic is unwinding the direct caller's Bomb scope
  lastBombDrop   \* what the last drop of the direct caller's Bomb did

lockVars == <<LOCK_HELD, LOCK, INIT, mutexOwner, poisoned, nullDeref, dropped>>
symVars == <<REF_COUNT, symOpts, symState, spuriousCleanup, priorOpts, lastInit>>
threadVars == <<stack, panicking>>
unitVars == <<held, ubomb, upanic, lastBombDrop>>
vars == <<panicStrategy, aborted, stack, panicking, LOCK_HELD, LOCK, INIT,
          mutexOwner, poisoned, nullDeref, dropped, REF_COUNT, symOpts, symState,
          spuriousCleanup,
          priorOpts, lastInit, held, ubomb, upanic, lastBombDrop>>

\* ------------------------------------------------------------ Option<T>
NoLease == [some |-> FALSE, opts |-> 0]
SomeLease(o) == [some |-> TRUE, opts |-> o]

\* ------------------------------------------------------------------ Bomb
\* A faulty variant: the drop never panics
DropBombNever(enabled, unwinding, strategy) == "none"

\* impl Drop for Bomb: what dropping a Bomb does, given its flag and whether
\* the thread is already unwinding: "none", "panic" (a new panic starts
\* unwinding) or "abort" (a panic while panicking, or under panic=abort).
DropBomb(enabled, unwinding, strategy) ==
  IF ~enabled THEN "none"
  ELSE IF unwinding \/ strategy = "abort" THEN "abort"
  ELSE "panic"

\* ------------------------------------------------------------- mod lock
\* A faulty variant: the reentrancy check never finds the flag set
LockHeldCheckOff(flag) == FALSE

\* lock(): `if LOCK_HELD.with(|l| l.get()) { return None }`
LockHeldCheck(flag) == flag

\* A faulty variant: the path that returns None clears the flag
FlagAfterEnterClears(flag) == ~LockHeldCheck(flag)

\* lock(): LOCK_HELD after the check and `LOCK_HELD.with(|s| s.set(true))`:
\* left as it is on the path that returns None, set on the other.
FlagAfterEnter(flag) == IF LockHeldCheck(flag) THEN flag ELSE TRUE

\* A faulty variant: a caller that finds the closure running does not wait
OnceStateNoWait(init) == IF init = "new" THEN "run" ELSE "pass"

\* Once::call_once: the caller runs the closure when none has started, waits
\* while another caller runs it, and passes when it has completed.
OnceState(init) ==
  IF init = "new" THEN "run" ELSE IF init = "running" THEN "wait" ELSE "pass"

\* A faulty variant: the mutex is handed out while a MutexGuard is live
MutexAvailableAlways(owner) == TRUE

\* Mutex::lock blocks until no MutexGuard is live.
MutexAvailable(owner) == owner = NoThread

\* LockResult::unwrap: panics when the mutex is poisoned.
UnwrapPanics(p) == p

\* A faulty variant: dropping the LockGuard leaves the mutex locked
MutexReleaseLeak(owner) == owner

\* Dropping the MutexGuard inside a LockGuard releases the mutex.
MutexRelease(owner) == NoThread

\* Dropping a MutexGuard while its thread is panicking poisons the mutex.
PoisonOnDrop(p, unwinding) == p \/ unwinding

\* ---------------------------------------------------------- dbghelp_init
OrDeferred(o) ==
  IF (o \div SYMOPT_DEFERRED_LOADS) % 2 = 1 THEN o ELSE o + SYMOPT_DEFERRED_LOADS

\* SymInitializeW: succeeds only when no symbol handler is initialized for the
\* process; `ok` is the platform's answer otherwise.
SymInitializeW(sym, ok) == sym = "none" /\ ok

\* A faulty variant: a failed SymInitializeW is counted and a lease returned
DbghelpInitCountsFailure(cnt, opts, sym, ok) ==
  IF cnt > 0
  THEN [count |-> cnt + 1, opts |-> opts, sym |-> sym,
        ret |-> SomeLease(opts), branch |-> "shared"]
  ELSE [count |-> cnt + 1, opts |-> OrDeferred(opts),
        sym |-> IF SymInitializeW(sym, ok) THEN "ours" ELSE sym,
        ret |-> SomeLease(opts),
        branch |-> IF SymInitializeW(sym, ok) THEN "init_ok" ELSE "init_failed"]

\* A faulty variant: a call that shares the handler is not counted
DbghelpInitSharedNotCounted(cnt, opts, sym, ok) ==
  IF cnt > 0
  THEN [count |-> cnt, opts |-> opts, sym |-> sym,
        ret |-> SomeLease(opts), branch |-> "shared"]
  ELSE IF SymInitializeW(sym, ok)
  THEN [count |-> cnt + 1, opts |-> OrDeferred(opts), sym |-> "ours",
        ret |-> SomeLease(opts), branch |-> "init_ok"]
  ELSE [count |-> cnt, opts |-> OrDeferred(opts), sym |-> sym,
        ret |-> NoLease, branch |-> "init_failed"]

\* A faulty variant: every call attempts the platform initialization
DbghelpInitAlwaysInits(cnt, opts, sym, ok) ==
  IF SymInitializeW(sym, ok)
  THEN [count |-> cnt + 1, opts |-> OrDeferred(opts), sym |-> "ours",
        ret |-> SomeLease(opts), branch |-> "init_ok"]
  ELSE [count |-> cnt, opts |-> OrDeferred(opts), sym |-> sym,
        ret |-> NoLease, branch |-> "init_failed"]

\* dbghelp_init(), from SymGetOptions() to its return: the new REF_COUNT,
\* options and handler state, the Option<Cleanup> returned, the branch taken.
DbghelpInit(cnt, opts, sym, ok) ==
  IF cnt > 0
  THEN [count |-> cnt + 1, opts |-> opts, sym |-> sym,
        ret |-> SomeLease(opts), branch |-> "shared"]
  ELSE IF SymInitializeW(sym, ok)
  THEN [count |-> cnt + 1, opts |-> OrDeferred(opts), sym |-> "ours",
        ret |-> SomeLease(opts), branch |-> "init_ok"]
  ELSE [count |-> cnt, opts |-> OrDeferred(opts), sym |-> sym,
        ret |-> NoLease, branch |-> "init_failed"]

\* A faulty variant: the drop leaves the count as it is
CleanupDropKeepsCount(cnt, opts, sym, lease) ==
  [count |-> cnt, opts |-> opts, sym |-> sym, cleanup |-> FALSE]

\* A faulty variant: every drop tears the handler down
CleanupDropEager(cnt, opts, sym, lease) ==
  [count |-> cnt - 1, opts |-> lease.opts, sym |-> "none", cleanup |-> TRUE]

\* impl Drop for Cleanup: the new REF_COUNT, options and handler state, and
\* whether SymCleanup ran. REF_COUNT is a usize: `-= 1` at 0 would underflow
\* (an overflow panic in a debug build, usize::MAX in a release build); the
\* count computed here is then the out-of-range -1.
CleanupDrop(cnt, opts, sym, lease) ==
  LET c == cnt - 1 IN
  IF c = 0
  THEN [count |-> c, opts |-> lease.opts, sym |-> "none", cleanup |-> TRUE]
  ELSE [count |-> c, opts |-> opts, sym |-> sym, cleanup |-> FALSE]

\* The process state after a dbghelp_init() call that computed r.
InitEffect(r) ==
  /\ REF_COUNT' = r.count
  /\ symOpts' = r.opts
  /\ symState' = r.sym
  /\ lastInit' = r.branch
  /\ priorOpts' = IF r.branch = "init_ok" THEN symOpts ELSE priorOpts
  /\ UNCHANGED spuriousCleanup

\* The process state after a Cleanup drop that computed r.
DropEffect(r) ==
  /\ REF_COUNT' = r.count
  /\ symOpts' = r.opts
  /\ symState' = r.sym
  /\ spuriousCleanup' = (spuriousCleanup \/ (r.cleanup /\ symState # "ours"))

\* ---------------------------------------------------------------- frames
NewFrame(op, reent) ==
  [op |-> op, pc |-> "lock", guard |-> "unset", lease |-> NoLease,
   bomb |-> "none", n |-> 0, log |-> <<>>, reentrant |-> reent, count0 |-> 0]

Depth(t) == Len(stack[t])
Top(t) == stack[t][Len(stack[t])]
SetTop(t, f) == [stack EXCEPT ![t] = [@ EXCEPT ![Len(@)] = f]]
At(t, p) == ~aborted /\ Depth(t) > 0 /\ Top(t).pc = p

Init ==
  /\ panicStrategy \in {"unwind", "abort"}
  /\ aborted = FALSE
  /\ stack = [t \in Threads |-> <<>>]
  /\ panicking = [t \in Threads |-> FALSE]
  /\ LOCK_HELD = [t \in Threads |-> FALSE]
  /\ LOCK = NullPtr
  /\ INIT = "new"
  /\ mutexOwner = NoThread
  /\ poisoned = FALSE
  /\ nullDeref = FALSE
  /\ dropped = [t \in Threads |-> FALSE]
  /\ REF_COUNT = 0
  /\ symOpts \in OptValues
  /\ symState = "none"
  /\ spuriousCleanup = FALSE
  /\ priorOpts = symOpts
  /\ lastInit = "none"
  /\ held = <<>>
  /\ ubomb = "none"
  /\ upanic = FALSE
  /\ lastBombDrop = [enabled |-> FALSE, unwinding |-> FALSE, outcome |-> "none",
                     aborted |-> FALSE]

\* ------------------------------------------------------- trace / resolve
\* The facade's branch on lock()'s result: no token, nothing is done.
FacadeAfterLock(guard) == IF guard = "none" THEN "ret" ELSE "handle"

\* Where lock()'s caller goes on: a direct caller (op "lock") runs its own
\* code under the guard, or returns when it got none.
AfterLock(op, guard) ==
  IF op # "lock" THEN FacadeAfterLock(guard)
  ELSE IF guard = "none" THEN "ret" ELSE "guarded"

\* Where unwinding goes on in the frame whose callee panicked: at the drop of
\* its innermost local, the Bomb of a facade call, the guard of a direct caller.
UnwindInto(op) == IF op = "lock" THEN "drop_guard" ELSE "drop_bomb"

\* The number of items the backend yields: resolve without a handle lease
\* yields no symbols.
BackendItems(op, lease, n) == IF op = "resolve" /\ ~lease.some THEN 0 ELSE n

\* A faulty variant: the traversal ignores the callback's result
TraverseNextIgnoresResult(op, r, k, n) == IF k >= n THEN "disarm" ELSE "cb"

\* After a callback returned r on item k of n: stop on a trace callback's
\* false or on the last item, else go on to the next item.
TraverseNext(op, r, k, n) ==
  IF (op = "trace" /\ ~r) \/ k >= n THEN "disarm" ELSE "cb"

\* A panic aborts the process under panic=abort, or when its thread is
\* already unwinding; else the thread starts unwinding.
PanicAborts(strategy, unwinding) == strategy = "abort" \/ unwinding

\* A panic starts on thread t, whose top frame becomes f when it unwinds.
Panic(t, f) ==
  IF PanicAborts(panicStrategy, panicking[t])
  THEN /\ aborted' = TRUE
       /\ UNCHANGED <<stack, panicking>>
  ELSE /\ aborted' = aborted
       /\ panicking' = [panicking EXCEPT ![t] = TRUE]
       /\ stack' = SetTop(t, f)

\* A thread outside the library calls trace or resolve.
Call(t, op) ==
  /\ ~aborted
  /\ Depth(t) = 0
  /\ stack' = [stack EXCEPT ![t] = <<NewFrame(op, LOCK_HELD[t])>>]
  /\ UNCHANGED <<panicStrategy, aborted, panicking, lockVars, symVars, unitVars>>

\* A callback calls trace or resolve (as the usage example's callback does).
CbCall(t, op) ==
  /\ At(t, "cb")
  /\ Depth(t) < MaxDepth
  /\ stack' = [stack EXCEPT ![t] = Append(@, NewFrame(op, LOCK_HELD[t]))]
  /\ UNCHANGED <<panicStrategy, aborted, panicking, lockVars, symVars, unitVars>>

\* lock(): the reentrancy check and the setting of the flag.
LockEnter(t) ==
  /\ At(t, "lock")
  /\ LOCK_HELD' = [LOCK_HELD EXCEPT ![t] = FlagAfterEnter(@)]
  /\ IF LockHeldCheck(LOCK_HELD[t])
     THEN stack' = SetTop(t, [Top(t) EXCEPT !.guard = "none",
                                            !.pc = AfterLock(Top(t).op, "none")])
     ELSE stack' = SetTop(t, [Top(t) EXCEPT !.pc = "once"])
  /\ UNCHANGED <<panicStrategy, aborted, panicking, LOCK, INIT, mutexOwner,
                 poisoned, nullDeref, dropped, symVars, unitVars>>

\* INIT.call_once: the first caller runs the closure, a caller that finds it
\* running waits, a caller that finds it done goes on.
CallOnce(t) ==
  /\ At(t, "once")
  /\ OnceState(INIT) # "wait"
  /\ IF OnceState(INIT) = "run"
     THEN /\ INIT' = "running"
          /\ stack' = SetTop(t, [Top(t) EXCEPT !.pc = "once_run"])
     ELSE /\ INIT' = INIT
          /\ stack' = SetTop(t, [Top(t) EXCEPT !.pc = "mutex"])
  /\ UNCHANGED <<panicStrategy, aborted, panicking, LOCK_HELD, LOCK, mutexOwner,
                 poisoned, nullDeref, dropped, symVars, unitVars>>

\* The closure: LOCK = Box::into_raw(Box::new(Mutex::new(()))).
OnceRun(t) ==
  /\ At(t, "once_run")
  /\ LOCK' = LOCK + 1
  /\ INIT' = "done"
  /\ stack' = SetTop(t, [Top(t) EXCEPT !.pc = "mutex"])
  /\ UNCHANGED <<panicStrategy, aborted, panicking, LOCK_HELD, mutexOwner,
                 poisoned, nullDeref, dropped, symVars, unitVars>>

\* Some(LockGuard((*LOCK).lock().unwrap())).
MutexLock(t) ==
  /\ At(t, "mutex")
  /\ LOCK = NullPtr \/ MutexAvailable(mutexOwner)
  /\ IF LOCK = NullPtr
     THEN /\ nullDeref' = TRUE
          /\ aborted' = TRUE
          /\ UNCHANGED <<stack, panicking, mutexOwner>>
     ELSE IF UnwrapPanics(poisoned)
     THEN /\ Panic(t, [Top(t) EXCEPT !.guard = "none", !.pc = "ret"])
          /\ UNCHANGED <<nullDeref, mutexOwner>>
     ELSE /\ mutexOwner' = t
          /\ stack' = SetTop(t, [Top(t) EXCEPT !.guard = "held",
                                               !.pc = AfterLock(Top(t).op, "held")])
          /\ UNCHANGED <<nullDeref, aborted, panicking>>
  /\ UNCHANGED <<panicStrategy, LOCK_HELD, LOCK, INIT, poisoned, dropped, symVars,
                 unitVars>>

\* The facade acquires a handle lease: dbghelp_init().
AcquireHandle(t, ok) ==
  /\ At(t, "handle")
  /\ LET r == DbghelpInit(REF_COUNT, symOpts, symState, ok) IN
       /\ InitEffect(r)
       /\ stack' = SetTop(t, [Top(t) EXCEPT !.lease = r.ret, !.pc = "arm",
                                            !.count0 = REF_COUNT])
  /\ UNCHANGED <<panicStrategy, aborted, panicking, lockVars, unitVars>>

\* The facade arms the Bomb and enters the backend, which reports n items.
ArmBomb(t, n) ==
  /\ At(t, "arm")
  /\ LET k == BackendItems(Top(t).op, Top(t).lease, n) IN
       stack' = SetTop(t, [Top(t) EXCEPT !.bomb = "armed", !.n = k,
                             !.pc = IF k = 0 THEN "disarm" ELSE "cb"])
  /\ UNCHANGED <<panicStrategy, aborted, panicking, lockVars, symVars, unitVars>>

\* The callback returns on the current item (r: a trace callback's result).
CbReturn(t, r) ==
  /\ At(t, "cb")
  /\ Top(t).op = "resolve" => r
  /\ LET k == Len(Top(t).log) + 1 IN
       stack' = SetTop(t, [Top(t) EXCEPT
                             !.log = Append(@, [f |-> k, r |-> r]),
                             !.pc = TraverseNext(Top(t).op, r, k, Top(t).n)])
  /\ UNCHANGED <<panicStrategy, aborted, panicking, lockVars, symVars, unitVars>>

\* The callback panics on the current item: unwinding reaches the Bomb.
CbPanic(t) ==
  /\ At(t, "cb")
  /\ Panic(t, [Top(t) EXCEPT !.pc = "drop_bomb"])
  /\ UNCHANGED <<panicStrategy, lockVars, symVars, unitVars>>

\* The backend returned normally: the facade disarms the Bomb.
Disarm(t) ==
  /\ At(t, "disarm")
  /\ stack' = SetTop(t, [Top(t) EXCEPT !.bomb = "disarmed", !.pc = "drop_bomb"])
  /\ UNCHANGED <<panicStrategy, aborted, panicking, lockVars, symVars, unitVars>>

\* The Bomb goes out of scope (normally or by unwinding).
DropBombStep(t) ==
  /\ At(t, "drop_bomb")
  /\ LET out == DropBomb(Top(t).bomb = "armed", panicking[t], panicStrategy) IN
       IF out = "abort"
       THEN /\ aborted' = TRUE
            /\ UNCHANGED <<stack, panicking>>
       ELSE /\ aborted' = aborted
            /\ panicking' = [panicking EXCEPT ![t] = @ \/ out = "panic"]
            /\ stack' = SetTop(t, [Top(t) EXCEPT !.bomb = "dropped",
                                                 !.pc = "drop_lease"])
  /\ UNCHANGED <<panicStrategy, lockVars, symVars, unitVars>>

\* The handle lease goes out of scope: impl Drop for Cleanup.
DropLease(t) ==
  /\ At(t, "drop_lease")
  /\ IF Top(t).lease.some
     THEN DropEffect(CleanupDrop(REF_COUNT, symOpts, symState, Top(t).lease))
     ELSE UNCHANGED <<REF_COUNT, symOpts, symState, spuriousCleanup>>
  /\ stack' = SetTop(t, [Top(t) EXCEPT !.lease = NoLease, !.pc = "drop_guard"])
  /\ UNCHANGED <<panicStrategy, aborted, panicking, lockVars, priorOpts, lastInit,
                 unitVars>>

\* impl Drop for LockGuard: assert!(slot.get()); slot.set(false).
DropGuard(t) ==
  /\ At(t, "drop_guard")
  /\ IF LOCK_HELD[t]
     THEN /\ LOCK_HELD' = [LOCK_HELD EXCEPT ![t] = FALSE]
          /\ stack' = SetTop(t, [Top(t) EXCEPT !.guard = "dropping", !.pc = "unlock"])
          /\ UNCHANGED <<aborted, panicking>>
     ELSE /\ Panic(t, [Top(t) EXCEPT !.guard = "dropping", !.pc = "unlock"])
          /\ UNCHANGED LOCK_HELD
  /\ UNCHANGED <<panicStrategy, LOCK, INIT, mutexOwner, poisoned, nullDeref,
                 dropped, symVars, unitVars>>

\* The LockGuard's MutexGuard field is dropped: the mutex is released, and
\* poisoned when the thread is panicking.
Unlock(t) ==
  /\ At(t, "unlock")
  /\ mutexOwner' = MutexRelease(mutexOwner)
  /\ poisoned' = PoisonOnDrop(poisoned, panicking[t])
  /\ stack' = SetTop(t, [Top(t) EXCEPT !.guard = "none", !.pc = "ret"])
  /\ UNCHANGED <<panicStrategy, aborted, panicking, LOCK_HELD, LOCK, INIT,
                 nullDeref, dropped, symVars, unitVars>>

\* The call returns to its caller; a panic goes on unwinding the calling
\* callback's frame, or leaves the library, where the thread's caller takes it.
Return(t) ==
  /\ At(t, "ret")
  /\ LET d == Depth(t) IN
       IF d > 1 /\ panicking[t]
       THEN /\ stack' = [stack EXCEPT ![t] =
                           [SubSeq(@, 1, d - 1) EXCEPT
                              ![d - 1].pc = UnwindInto(@[d - 1].op)]]
            /\ UNCHANGED panicking
       ELSE /\ stack' = [stack EXCEPT ![t] = SubSeq(@, 1, d - 1)]
            /\ panicking' = [panicking EXCEPT ![t] = FALSE]
  /\ UNCHANGED <<panicStrategy, aborted, lockVars, symVars, unitVars>>

\* Another component of the process initializes or cleans up the symbol
\* handler.
ExtInit ==
  /\ ~aborted
  /\ symState = "none"
  /\ symState' = "external"
  /\ UNCHANGED <<panicStrategy, aborted, threadVars, lockVars, REF_COUNT, symOpts,
                 spuriousCleanup, priorOpts, lastInit, unitVars>>

ExtCleanup ==
  /\ ~aborted
  /\ symState = "external"
  /\ symState' = "none"
  /\ UNCHANGED <<panicStrategy, aborted, threadVars, lockVars, REF_COUNT, symOpts,
                 spuriousCleanup, priorOpts, lastInit, unitVars>>

ThreadStep(t) ==
  \/ \E op \in Ops : Call(t, op)
  \/ \E op \in Ops : CbCall(t, op)
  \/ LockEnter(t)
  \/ CallOnce(t)
  \/ OnceRun(t)
  \/ MutexLock(t)
  \/ \E ok \in BOOLEAN : AcquireHandle(t, ok)
  \/ \E n \in 0..MaxFrames : ArmBomb(t, n)
  \/ \E r \in BOOLEAN : CbReturn(t, r)
  \/ CbPanic(t)
  \/ Disarm(t)
  \/ DropBombStep(t)
  \/ DropLease(t)
  \/ DropGuard(t)
  \/ Unlock(t)
  \/ Return(t)

Next ==
  \/ \E t \in Threads : ThreadStep(t)
  \/ ExtInit
  \/ ExtCleanup

Spec == Init /\ [][Next]_vars

\* The steps of a call that wait for nothing but the thread's own scheduling.
Progress(t) ==
  \/ LockEnter(t)
  \/ CallOnce(t)
  \/ OnceRun(t)
  \/ \E ok \in BOOLEAN : AcquireHandle(t, ok)
  \/ \E n \in 0..MaxFrames : ArmBomb(t, n)
  \/ Disarm(t)
  \/ DropBombStep(t)
  \/ DropLease(t)
  \/ DropGuard(t)
  \/ Unlock(t)
  \/ Return(t)

\* Fair scheduling: a thread that can go on does; a thread waiting for the
\* mutex gets it if it is free again and again; a callback returns unless it
\* panics.
SpecFair ==
  /\ Spec
  /\ \A t \in Threads :
       /\ WF_vars(Progress(t))
       /\ SF_vars(MutexLock(t))
       /\ SF_vars(\E r \in BOOLEAN : CbReturn(t, r))

\* ------------------------------------------- the components, called directly
\* A caller holding the lock token calls dbghelp_init() and keeps the lease.
HInit(ok) ==
  /\ ~aborted
  /\ Len(held) < MaxLeases
  /\ LET r == DbghelpInit(REF_COUNT, symOpts, symState, ok) IN
       /\ InitEffect(r)
       /\ held' = IF r.ret.some THEN Append(held, r.ret) ELSE held
  /\ UNCHANGED <<panicStrategy, aborted, threadVars, lockVars, ubomb, upanic,
                 lastBombDrop>>

\* The caller drops the i-th lease it holds.
HDrop(i) ==
  /\ ~aborted
  /\ i \in 1..Len(held)
  /\ DropEffect(CleanupDrop(REF_COUNT, symOpts, symState, held[i]))
  /\ held' = SubSeq(held, 1, i - 1) \o SubSeq(held, i + 1, Len(held))
  /\ UNCHANGED <<panicStrategy, aborted, threadVars, lockVars, priorOpts, lastInit,
                 ubomb, upanic, lastBombDrop>>

\* Bomb { enabled: true } opens a scope.
BombNew ==
  /\ ~aborted
  /\ ubomb = "none"
  /\ ubomb' = "armed"
  /\ UNCHANGED <<panicStrategy, aborted, threadVars, lockVars, symVars, held,
                 upanic, lastBombDrop>>

\* bomb.enabled = false
BombDisarm ==
  /\ ~aborted
  /\ ubomb = "armed"
  /\ ~upanic
  /\ ubomb' = "disarmed"
  /\ UNCHANGED <<panicStrategy, aborted, threadVars, lockVars, symVars, held,
                 upanic, lastBombDrop>>

\* Code inside the Bomb's scope panics.
ScopePanic ==
  /\ ~aborted
  /\ ubomb # "none"
  /\ ~upanic
  /\ IF PanicAborts(panicStrategy, upanic)
     THEN aborted' = TRUE /\ UNCHANGED upanic
     ELSE upanic' = TRUE /\ UNCHANGED aborted
  /\ UNCHANGED <<panicStrategy, threadVars, lockVars, symVars, held, ubomb,
                 lastBombDrop>>

\* The Bomb's scope ends, normally or by unwinding: the Bomb is dropped. A
\* panic that leaves the scope is caught by the scope's caller.
BombScopeExit ==
  /\ ~aborted
  /\ ubomb # "none"
  /\ LET out == DropBomb(ubomb = "armed", upanic, panicStrategy) IN
       /\ aborted' = (out = "abort")
       /\ lastBombDrop' = [enabled |-> ubomb = "armed", unwinding |-> upanic,
                           outcome |-> out, aborted |-> out = "abort"]
  /\ ubomb' = "none"
  /\ upanic' = FALSE
  /\ UNCHANGED <<panicStrategy, threadVars, lockVars, symVars, held>>

NextUnit ==
  \/ \E ok \in BOOLEAN : HInit(ok)
  \/ \E i \in 1..MaxLeases : HDrop(i)
  \/ BombNew
  \/ BombDisarm
  \/ ScopePanic
  \/ BombScopeExit
  \/ ExtInit
  \/ ExtCleanup

SpecUnit == Init /\ [][NextUnit]_vars

\* ------------------------------------------------ direct callers of lock()
\* Threads that use mod lock themselves: they call lock(), run their own code
\* under the guard (which may call lock() again, or panic), and let the guard
\* go out of scope. Nothing aborts a panic here: it unwinds the guard's scope.

\* A thread calls lock().
LockCall(t) ==
  /\ ~aborted
  /\ Depth(t) = 0
  /\ stack' = [stack EXCEPT ![t] = <<NewFrame("lock", LOCK_HELD[t])>>]
  /\ UNCHANGED <<panicStrategy, aborted, panicking, lockVars, symVars, unitVars>>

\* The code that runs under a guard calls lock().
NestedLockCall(t) ==
  /\ At(t, "guarded")
  /\ Depth(t) < MaxDepth
  /\ stack' = [stack EXCEPT ![t] = Append(@, NewFrame("lock", LOCK_HELD[t]))]
  /\ UNCHANGED <<panicStrategy, aborted, panicking, lockVars, symVars, unitVars>>

\* The guard's scope ends normally.
HolderExit(t) ==
  /\ At(t, "guarded")
  /\ stack' = SetTop(t, [Top(t) EXCEPT !.pc = "drop_guard"])
  /\ dropped' = [dropped EXCEPT ![t] = TRUE]
  /\ UNCHANGED <<panicStrategy, aborted, panicking, LOCK_HELD, LOCK, INIT,
                 mutexOwner, poisoned, nullDeref, symVars, unitVars>>

\* The code that runs under the guard panics: unwinding drops the guard.
HolderPanic(t) ==
  /\ At(t, "guarded")
  /\ Panic(t, [Top(t) EXCEPT !.pc = "drop_guard"])
  /\ dropped' = [dropped EXCEPT ![t] = @ \/ ~PanicAborts(panicStrategy, panicking[t])]
  /\ UNCHANGED <<panicStrategy, LOCK_HELD, LOCK, INIT, mutexOwner, poisoned,
                 nullDeref, symVars, unitVars>>

NextLock ==
  \E t \in Threads :
    \/ LockCall(t)
    \/ NestedLockCall(t)
    \/ LockEnter(t)
    \/ CallOnce(t)
    \/ OnceRun(t)
    \/ MutexLock(t)
    \/ HolderExit(t)
    \/ HolderPanic(t)
    \/ DropGuard(t)
    \/ Unlock(t)
    \/ Return(t)

SpecLock == Init /\ [][NextLock]_vars


\* ---------------------------------------------------------------- claims
\* The live LockGuards: a guard is live from the return of lock() until its
\* MutexGuard field has been dropped.
LiveGuards ==
  {<<t, i>> \in Threads \X (1..MaxDepth) :
     i <= Depth(t) /\ stack[t][i].guard \in {"held", "dropping"}}

Holds(t) == \E i \in 1..Depth(t) : stack[t][i].guard \in {"held", "dropping"}

\* C1: at most one LockGuard is live process-wide at any instant, so a thread
\* that calls lock() while another thread holds a LockGuard obtains none
\* until that guard has been dropped.
C1_AtMostOneGuard == Cardinality(LiveGuards) <= 1

\* C1's case: one thread holds the LockGuard while another is blocked in
\* lock() on the mutex.
C1_Witness ==
  \E a, b \in Threads :
    /\ a # b
    /\ Holds(a)
    /\ At(b, "mutex")
    /\ LOCK # NullPtr

\* C2: a lock() call by a thread whose LOCK_HELD flag is set returns None in
\* one step that leaves the mutex, the Once and the flag alone, and no thread
\* ever waits in lock() for the mutex while it holds the mutex itself.
C2_ReentrantLockReturnsNone ==
  /\ [](\A t \in Threads :
          (Depth(t) > 0 /\ Top(t).pc \in {"once", "once_run", "mutex"})
            => mutexOwner # t)
  /\ [][\A t \in Threads :
          (At(t, "lock") /\ LOCK_HELD[t] /\ stack'[t] # stack[t])
            => /\ Depth(t)' = Depth(t)
               /\ Top(t)'.guard = "none"
               /\ Top(t)'.pc = "ret"
               /\ UNCHANGED lockVars]_vars

\* C2's case: a thread that holds the mutex has called lock() again and got
\* None back.
C2_Witness ==
  \E t \in Threads :
    /\ mutexOwner = t
    /\ Depth(t) = 2
    /\ Top(t).pc = "ret"
    /\ Top(t).guard = "none"

C4_TeardownOncePerInit ==
  /\ [](REF_COUNT >= 1 <=> symState = "ours")
  /\ [](~spuriousCleanup)
  /\ [][(symState = "ours" /\ symState' # "ours")
          => (REF_COUNT = 1 /\ REF_COUNT' = 0)]_vars
  /\ [][(REF_COUNT >= 1 /\ REF_COUNT' >= 1) => symState' = "ours"]_vars

\* C4's case: several leases were issued on one initialization (the last
\* call shared it) and all of them have been dropped, the handler torn down.
C4_Witness ==
  /\ lastInit = "shared"
  /\ held = <<>>
  /\ REF_COUNT = 0
  /\ symState = "none"

\* C5 (as claimed): the drop that takes REF_COUNT from 1 to 0 restores the
\* symbol options to their value before the initialization that took
\* REF_COUNT from 0 to 1, whatever the order of the drops.
C5_RestoresPriorOptions ==
  [][(REF_COUNT = 1 /\ REF_COUNT' = 0) => symOpts' = priorOpts]_vars

\* C6: a dbghelp_init() call made with REF_COUNT = 0 whose SymInitializeW
\* fails returns None, leaves REF_COUNT 0, issues no lease and runs no
\* SymCleanup; and every call made with REF_COUNT = 0 calls SymInitializeW.
C6_FailedInitLeavesNothing ==
  /\ [][\A ok \in BOOLEAN :
          (HInit(ok) /\ REF_COUNT = 0 /\ ~SymInitializeW(symState, ok))
            => /\ lastInit' = "init_failed"
               /\ REF_COUNT' = 0
               /\ held' = held
               /\ symState' = symState
               /\ ~spuriousCleanup']_vars
  /\ [][\A ok \in BOOLEAN :
          (HInit(ok) /\ REF_COUNT = 0)
            => lastInit' \in {"init_ok", "init_failed"}]_vars
  /\ []((lastInit = "init_failed" /\ REF_COUNT = 0) => held = <<>>)

\* C6's case: an initialization attempt has failed while another component
\* holds the symbol handler.
C6_Witness ==
  /\ lastInit = "init_failed"
  /\ symState = "external"
  /\ REF_COUNT = 0
  /\ held = <<>>

C8_PanicNeverPassesBomb ==
  /\ [](\A t \in Threads :
          panicking[t] =>
            /\ Depth(t) > 0
            /\ Top(t).pc = "drop_bomb"
            /\ \A i \in 1..Depth(t) : stack[t][i].bomb = "armed")
  /\ [][\A t \in Threads :
          panicking[t] => (panicking'[t] /\ stack'[t] = stack[t])]_vars
  /\ [][\A t \in Threads :
          (panicking[t] /\ DropBombStep(t)) => aborted']_vars

\* C8's case: a callback panicked under an armed Bomb and the Bomb's drop
\* aborted the process.
C8_Witness ==
  \E t \in Threads :
    /\ panicking[t]
    /\ aborted
    /\ Top(t).bomb = "armed"
    /\ Top(t).log # <<>>

TraversalDone(f) == f.pc = "disarm" \/ f.bomb \in {"disarmed", "dropped"}

\* C10: trace invokes the callback on the backend's frames 1, 2, ... in
\* order, every invocation but the last returned true, and a finished
\* traversal stopped after the first false or after frame n: an always-false
\* callback was invoked once, an always-true callback n times.
C10_TraceVisitsInOrderUntilFalse ==
  \A t \in Threads : \A i \in 1..Depth(t) :
    LET f == stack[t][i]
        k == Len(f.log)
    IN f.op = "trace" =>
         /\ k <= f.n
         /\ \A j \in 1..k : f.log[j].f = j
         /\ \A j \in 1..(k - 1) : f.log[j].r
         /\ f.pc = "cb" => (k < f.n /\ \A j \in 1..k : f.log[j].r)
         /\ TraversalDone(f) =>
              /\ k = f.n \/ (k >= 1 /\ ~f.log[k].r)
              /\ (f.n >= 1 /\ \A j \in 1..k : ~f.log[j].r) => k = 1
              /\ (\A j \in 1..k : f.log[j].r) => k = f.n

\* C10's case: a trace whose backend reports MaxFrames frames stopped after
\* its callback returned false on the first frame.
C10_Witness ==
  \E t \in Threads :
    /\ Depth(t) > 0
    /\ Top(t).op = "trace"
    /\ Top(t).n = MaxFrames
    /\ TraversalDone(Top(t))
    /\ Len(Top(t).log) = 1
    /\ ~Top(t).log[1].r

LiveLeases ==
  Len(held) + Cardinality({<<t, i>> \in Threads \X (1..MaxDepth) :
                             i <= Depth(t) /\ stack[t][i].lease.some})

\* C12: in any interleaving of dbghelp_init() calls and Cleanup drops,
\* REF_COUNT is non-negative and equals the number of live leases, and every
\* drop finds REF_COUNT >= 1 and takes exactly 1 off it: the decrement never
\* underflows.
C12_CountEqualsLiveLeases ==
  /\ [](REF_COUNT >= 0 /\ REF_COUNT = LiveLeases)
  /\ [][\A i \in 1..MaxLeases :
          HDrop(i) => (REF_COUNT >= 1 /\ REF_COUNT' = REF_COUNT - 1)]_vars
  /\ [][REF_COUNT' < REF_COUNT => REF_COUNT >= 1]_vars

\* C12's case: after an initialization and a call that shared the handler,
\* the first lease has been dropped and the shared one is the only one live.
C12_Witness ==
  /\ lastInit = "shared"
  /\ Len(held) = 1
  /\ REF_COUNT = 1
  /\ symState = "ours"
  /\ held[1].opts # priorOpts

\* C13: a dbghelp_init() call that finds REF_COUNT > 0 adds exactly 1 to it
\* and returns a lease, leaving the symbol options and the handler as they
\* are (no SymSetOptions, no SymInitializeW); a call reaches SymInitializeW
\* only with REF_COUNT = 0, so never while an initialization of ours is live.
C13_SharedInitOnlyCounts ==
  /\ [][\A ok \in BOOLEAN :
          (HInit(ok) /\ REF_COUNT > 0) =>
            /\ REF_COUNT' = REF_COUNT + 1
            /\ symOpts' = symOpts
            /\ symState' = symState
            /\ lastInit' = "shared"
            /\ Len(held') = Len(held) + 1
            /\ held'[Len(held')].some]_vars
  /\ [][\A ok \in BOOLEAN :
          (HInit(ok) /\ lastInit' \in {"init_ok", "init_failed"}) =>
            (REF_COUNT = 0 /\ symState # "ours")]_vars
  /\ [][\A ok \in BOOLEAN :
          (HInit(ok) /\ symState = "ours") => lastInit' = "shared"]_vars

\* C13's case: the last call found REF_COUNT at 2 and shared the handler.
C13_Witness ==
  /\ lastInit = "shared"
  /\ REF_COUNT = 3
  /\ Len(held) = 3
  /\ symState = "ours"

\* C19: a dbghelp_init() call that returns None because SymInitializeW failed
\* leaves the symbol options as they were before the call.
C19_FailedInitKeepsOptions ==
  [][\A ok \in BOOLEAN :
       (HInit(ok) /\ lastInit' = "init_failed") => symOpts' = symOpts]_vars

\* C14: a thread's LOCK_HELD is set whenever it holds a LockGuard; the drop
\* of a LockGuard leaves the dropping thread's LOCK_HELD clear and the mutex
\* released; and a lock() call made afterwards by a thread that has dropped
\* its guard gets past the reentrancy check and, finding the mutex free,
\* returns Some(LockGuard).
C14_DropThenLockAgain ==
  /\ [](\A t \in Threads : \A i \in 1..Depth(t) :
         stack[t][i].guard = "held" => LOCK_HELD[t])
  /\ [][\A t \in Threads :
          Unlock(t) => (~LOCK_HELD'[t] /\ mutexOwner' = NoThread)]_vars
  /\ [][\A t \in Threads :
          (LockEnter(t) /\ dropped[t] /\ ~Holds(t)) => Top(t)'.pc = "once"]_vars
  /\ [][\A t \in Threads :
          (MutexLock(t) /\ dropped[t]) => Top(t)'.guard = "held"]_vars

\* C15: whatever the interleaving of the threads' first lock() calls, the
\* closure of INIT.call_once runs in one thread at a time and once in all,
\* LOCK is written only there, once, from null to the one Mutex there ever
\* is, and is never written again (so the Mutex is never replaced or freed);
\* no thread reaches (*LOCK).lock() or holds a guard while LOCK is null.
C15_MutexConstructedOnce ==
  /\ [](~nullDeref)
  /\ [](LOCK \in {NullPtr, NullPtr + 1})
  /\ [](INIT = "done" <=> LOCK # NullPtr)
  /\ [](Cardinality({t \in Threads : \E i \in 1..Depth(t) :
                       stack[t][i].pc = "once_run"}) = IF INIT = "running" THEN 1 ELSE 0)
  /\ [](\A t \in Threads : \A i \in 1..Depth(t) :
         (stack[t][i].pc = "mutex" \/ stack[t][i].guard \in {"held", "dropping"})
           => LOCK # NullPtr)
  /\ [][LOCK' # LOCK =>
          (LOCK = NullPtr /\ INIT = "running" /\ \E t \in Threads : OnceRun(t))]_vars

\* C15's case: two threads are in their first lock() calls at once; one
\* holds the guard, the other is at (*LOCK).lock() on the same Mutex.
C15_Witness ==
  \E a, b \in Threads :
    /\ a # b
    /\ ~dropped[a] /\ ~dropped[b]
    /\ Depth(a) = 1 /\ Top(a).guard = "held"
    /\ At(b, "mutex")
    /\ LOCK = NullPtr + 1
    /\ INIT = "done"

\* C16: the assertion in LockGuard's drop never fails: LOCK_HELD of the
\* dropping thread is set whenever a LockGuard is about to be dropped, and
\* the drop clears it without panicking, also after lock() calls that
\* returned None under the guard and when the drop is run by unwinding.
C16_DropAssertionHolds ==
  /\ [](\A t \in Threads : \A i \in 1..Depth(t) :
         stack[t][i].pc \in {"guarded", "drop_guard"} => LOCK_HELD[t])
  /\ [][\A t \in Threads :
          DropGuard(t) => /\ LOCK_HELD[t]
                          /\ ~LOCK_HELD'[t]
                          /\ aborted' = aborted
                          /\ panicking' = panicking
                          /\ Top(t)'.pc = "unlock"]_vars

\* C16's case: unwinding has run a LockGuard's drop past its assertion; the
\* MutexGuard inside has yet to go.
C16_Witness ==
  \E t \in Threads :
    /\ At(t, "unlock")
    /\ panicking[t]
    /\ Top(t).guard = "dropping"
    /\ ~LOCK_HELD[t]
    /\ mutexOwner = t

\* The thread is executing inside lock().
InLock(t) == Depth(t) > 0 /\ Top(t).pc \in {"lock", "once", "once_run", "mutex"}

\* C17: a thread that is not executing inside lock() and holds no LockGuard
\* has LOCK_HELD clear, whichever way its lock() calls ended, the panic on a
\* poisoned mutex included.
C17_FlagClearOutsideLock ==
  \A t \in Threads : (~InLock(t) /\ ~Holds(t)) => ~LOCK_HELD[t]

\* C18: a lock() call made by a thread that holds a LockGuard returns None
\* and changes nothing: the flag stays set, the mutex stays with the thread's
\* outer guard, the outer calls are as they were; and while a thread holds a
\* guard no other thread holds or obtains one.
C18_ReentrantNoneChangesNothing ==
  /\ [][\A t \in Threads :
          (LockEnter(t) /\ Holds(t)) =>
            /\ UNCHANGED lockVars
            /\ LOCK_HELD'[t]
            /\ mutexOwner' = t
            /\ Top(t)'.guard = "none"
            /\ Top(t)'.pc = "ret"
            /\ SubSeq(stack'[t], 1, Depth(t) - 1) = SubSeq(stack[t], 1, Depth(t) - 1)]_vars
  /\ [](\A t \in Threads : Holds(t) =>
         (mutexOwner = t /\ \A u \in Threads \ {t} : ~Holds(u)))
  /\ [][\A u \in Threads :
          (MutexLock(u) /\ Top(u)'.guard = "held") => \A t \in Threads : ~Holds(t)]_vars

\* C18's case: a thread's lock() call under its own guard has returned None
\* while another thread waits at (*LOCK).lock().
C18_Witness ==
  \E t, u \in Threads :
    /\ t # u
    /\ Depth(t) = 2
    /\ stack[t][1].guard = "held"
    /\ Top(t).pc = "ret"
    /\ Top(t).guard = "none"
    /\ LOCK_HELD[t]
    /\ mutexOwner = t
    /\ At(u, "mutex")

====
